---- MODULE Spec2Model ----
(***************************************************************************)
(* Model of the `kargo promote` command (package promote): one invocation  *)
(* of the command's RunE, i.e. promotionOptions.validate followed by       *)
(* promotionOptions.run.                                                   *)
(*                                                                         *)
(* The state is the options struct the command runs on, the position of    *)
(* the invocation in RunE/run, the remote calls issued so far, what has    *)
(* been written to IOStreams.Out, and the error RunE returned.             *)
(*                                                                         *)
(* Errors are records [kind, chain, errs]:                                 *)
(*   nil error            kind = "nil"                                     *)
(*   an error E           kind = "base", chain = <<E>>                     *)
(*   errors.Wrap(e, m)    kind = "wrap", chain = <<m>> \o e.chain          *)
(*   goerrors.Join(es)    kind = "join", errs = the joined messages        *)
(***************************************************************************)
EXTENDS Integers, Sequences, FiniteSets, TLC

VARIABLES
    o,              \* the promotionOptions the command runs on
    pc,             \* position of the invocation in RunE / run
    clientErr,      \* error returned by client.GetClientFromConfig
    calls,          \* remote calls issued so far, in order
    res,            \* response returned by the remote call
    promoteErr,     \* error returned by the remote call
    toPrinterCalls, \* number of calls of o.PrintFlags.ToPrinter
    printerErr,     \* error returned by o.PrintFlags.ToPrinter
    out,            \* what was handed to o.IOStreams.Out, in order
    ret             \* error returned by RunE

vars == <<o, pc, clientErr, calls, res, promoteErr, toPrinterCalls, printerErr, out, ret>>

\* ---------------------------------------------------------------- bounds

\* Longest list of promotions a PromoteSubscribers response carries.
MaxPromos == 2

\* ---------------------------------------------------------------- values

ProjectValues == {"", "my-project"}
FreightNameValues == {"", "abc123"}
FreightAliasValues == {"", "wonky-wombat"}
StageValues == {"", "qa"}
SubscribersOfValues == {"", "qa"}

\* o.PrintFlags.OutputFormat is a *string: nil, "" or a format name.
NilPtr == "<nil>"
OutputFormatValues == {NilPtr, "", "json"}

PromoNames == {"promo-2", "promo-3"}

\* Errors the remote service (or the canceled context) can produce.
RemoteErrors == {"E", "context canceled"}
ClientErrors == {"client config"}
PrinterErrors == {"printer error"}

\* ---------------------------------------------------------------- errors

Nil == [kind |-> "nil", chain |-> <<>>, errs |-> <<>>]

Base(e) == [kind |-> "base", chain |-> <<e>>, errs |-> <<>>]

\* errors.Wrap returns nil when the wrapped error is nil.
Wrap(err, msg) ==
    IF err = Nil THEN Nil
    ELSE [kind |-> "wrap", chain |-> <<msg>> \o err.chain, errs |-> <<>>]

\* goerrors.Join returns nil when there is no error to join.
Join(errs) ==
    IF errs = <<>> THEN Nil
    ELSE [kind |-> "join", chain |-> <<>>, errs |-> errs]

\* errors.Is(err, Base(e)): err is e or wraps it.
Wraps(err, e) ==
    /\ err.kind \in {"base", "wrap"}
    /\ err.chain[Len(err.chain)] = e

\* ---------------------------------------------------------------- options

Options ==
    [Project : ProjectValues,
     FreightName : FreightNameValues,
     FreightAlias : FreightAliasValues,
     Stage : StageValues,
     SubscribersOf : SubscribersOfValues,
     OutputFormat : OutputFormatValues]

\* errors.Errorf(format, flags...): the format and the names of the flag
\* constants of package option it is applied to.
Errorf(format, flags) == <<format>> \o flags

\* promotionOptions.validate, with a check left out.
validate_noStageCheck(opts) ==
    LET errs1 == IF opts.Project = ""
                 THEN <<Errorf("%s is required", <<"ProjectFlag">>)>>
                 ELSE <<>>
        errs2 == IF opts.FreightName = "" /\ opts.FreightAlias = ""
                 THEN Append(errs1, Errorf("either %s or %s is required",
                                           <<"FreightFlag", "FreightAliasFlag">>))
                 ELSE errs1
    IN  Join(errs2)

\* promotionOptions.validate, returning at the first violated check.
validate_shortCircuit(opts) ==
    IF opts.Project = ""
    THEN Join(<<Errorf("%s is required", <<"ProjectFlag">>)>>)
    ELSE IF opts.FreightName = "" /\ opts.FreightAlias = ""
    THEN Join(<<Errorf("either %s or %s is required",
                       <<"FreightFlag", "FreightAliasFlag">>)>>)
    ELSE IF opts.Stage = "" /\ opts.SubscribersOf = ""
    THEN Join(<<Errorf("either %s or %s is required",
                       <<"StageFlag", "SubscribersOfFlag">>)>>)
    ELSE Nil

\* promotionOptions.validate: errs grows by one error per violated check,
\* and the checks are three independent if statements.
validate(opts) ==
    LET errs1 == IF opts.Project = ""
                 THEN <<Errorf("%s is required", <<"ProjectFlag">>)>>
                 ELSE <<>>
        errs2 == IF opts.FreightName = "" /\ opts.FreightAlias = ""
                 THEN Append(errs1, Errorf("either %s or %s is required",
                                           <<"FreightFlag", "FreightAliasFlag">>))
                 ELSE errs1
        errs3 == IF opts.Stage = "" /\ opts.SubscribersOf = ""
                 THEN Append(errs2, Errorf("either %s or %s is required",
                                           <<"StageFlag", "SubscribersOfFlag">>))
                 ELSE errs2
    IN  Join(errs3)

\* ptr.Deref(o.PrintFlags.OutputFormat, "") == ""
PlainOutput(opts) ==
    (IF opts.OutputFormat = NilPtr THEN "" ELSE opts.OutputFormat) = ""

\* ---------------------------------------------------------------- remote

\* A response of the remote service: res itself may be nil, res.Msg may be
\* nil, and the message carries the promotions created.  A promotion of a
\* response has its metadata and name set.
NilRes == [present |-> FALSE, msg |-> FALSE, promotions |-> <<>>]
NilMsgRes == [present |-> TRUE, msg |-> FALSE, promotions |-> <<>>]
Res(promos) == [present |-> TRUE, msg |-> TRUE, promotions |-> promos]

Promotions == [name : PromoNames]

PromoSeqs == UNION {[1..n -> Promotions] : n \in 0..MaxPromos}

\* PromoteStage returns a response with the promotion created, or an error.
StageOutcomes ==
    {[res |-> Res(<<p>>), err |-> Nil] : p \in Promotions}
        \cup {[res |-> NilRes, err |-> Base(e)] : e \in RemoteErrors}

\* PromoteSubscribers returns a response, an error, or both: the promotions
\* created before the failure come with the error.
SubscribersOutcomes ==
    {[res |-> r, err |-> Nil] : r \in {NilMsgRes} \cup {Res(s) : s \in PromoSeqs}}
        \cup {[res |-> r, err |-> Base(e)] :
                r \in {NilRes, NilMsgRes} \cup {Res(s) : s \in PromoSeqs},
                e \in RemoteErrors}

\* The request the command builds from its options.
Request(rpc, opts, stage) ==
    [rpc |-> rpc,
     Project |-> opts.Project,
     Freight |-> opts.FreightName,
     FreightAlias |-> opts.FreightAlias,
     Stage |-> stage]

\* res.Msg.GetPromotions(): nil-safe on a nil message.
GetPromotions(r) == IF r.msg THEN r.promotions ELSE <<>>

\* res.Msg.GetPromotion().GetMetadata().GetName()
GetPromotionName(r) == r.promotions[1].name

\* ---------------------------------------------------------------- output

\* fmt.Fprintf(o.IOStreams.Out, "Promotion Created: %q\n", name)
Fprintf(name) ==
    [via |-> "Fprintf", kind |-> "Promotion Created: %q\n", name |-> name]

\* typesv1alpha1.FromPromotionProto(p): the promotion as the object the
\* printers take.
FromPromotionProto(p) == [kind |-> "Promotion", name |-> p.name]

\* printer.PrintObj(obj, o.IOStreams.Out): the object handed to the printer.
\* The error PrintObj returns is discarded.
PrintObj(obj) == [via |-> "PrintObj", kind |-> obj.kind, name |-> obj.name]

\* The plain line of the stage branch, printing the request's stage instead
\* of the promotion's name.
StageLine_stageName(opts, r) == <<Fprintf(opts.Stage)>>

\* Stage branch, plain output: the line with the name of the promotion.
StageLine(opts, r) == <<Fprintf(GetPromotionName(r))>>

\* The stage branch's error with the other branch's label.
StageError_wrongLabel(err) == Wrap(err, "promote subscribers")

\* Stage branch: errors.Wrap(err, "promote stage")
StageError(err) == Wrap(err, "promote stage")

\* The plain loop of the subscribers branch, skipped when the call failed.
PlainLines_onlyOnSuccess(r, err) ==
    IF err = Nil /\ r.present /\ r.msg
    THEN [i \in 1..Len(GetPromotions(r)) |-> Fprintf(GetPromotions(r)[i].name)]
    ELSE <<>>

RECURSIVE PlainLoop(_)
\* for _, p := range res.Msg.GetPromotions() { Fprintf(..., *p.Metadata.Name) }
PlainLoop(promos) ==
    IF promos = <<>> THEN <<>>
    ELSE <<Fprintf(Head(promos).name)>> \o PlainLoop(Tail(promos))

\* Subscribers branch, plain output: the loop runs when res and res.Msg are
\* not nil, whatever promoteErr is.
PlainLines(r, err) ==
    IF r.present /\ r.msg THEN PlainLoop(GetPromotions(r)) ELSE <<>>

\* Subscribers branch, plain output: nil when promoteErr is nil.
SubscribersError(err) == Wrap(err, "promote subscribers")

\* The structured loop of the subscribers branch, stopping before the last
\* promotion.
PrintObjs_dropLast(promos) ==
    [i \in 1..(Len(promos) - 1) |-> PrintObj(FromPromotionProto(promos[i]))]

RECURSIVE PrintObjs(_)
\* for _, p := range res.Msg.GetPromotions() { printer.PrintObj(...) }
PrintObjs(promos) ==
    IF promos = <<>> THEN <<>>
    ELSE <<PrintObj(FromPromotionProto(Head(promos)))>> \o PrintObjs(Tail(promos))

\* The second case of the switch, entered whatever the first case is.
SubscribersCase_noSwitch(opts) == opts.SubscribersOf # ""

\* switch: case o.Stage != ""
StageCase(opts) == opts.Stage # ""

\* switch: case o.SubscribersOf != "", reached when the first case is not taken
SubscribersCase(opts) == ~StageCase(opts) /\ opts.SubscribersOf # ""

\* ---------------------------------------------------------------- actions

\* The command starts on the options struct its flags were parsed into.
\* validate and run are methods of the struct and read nothing else, so the
\* struct takes every combination of empty and non-empty fields; the flag
\* groups addFlags declares are enforced by the flag library, outside the
\* two methods.
Init ==
    /\ o \in Options
    /\ pc = "RunE"
    /\ clientErr = Nil
    /\ calls = <<>>
    /\ res = NilRes
    /\ promoteErr = Nil
    /\ toPrinterCalls = 0
    /\ printerErr = Nil
    /\ out = <<>>
    /\ ret = Nil

\* RunE: validate, and return its error before run is called.
Validate ==
    /\ pc = "RunE"
    /\ IF validate(o) # Nil
       THEN /\ ret' = validate(o)
            /\ pc' = "done"
       ELSE /\ pc' = "run"
            /\ UNCHANGED ret
    /\ UNCHANGED <<o, clientErr, calls, res, promoteErr, toPrinterCalls, printerErr, out>>

\* run: client.GetClientFromConfig, whose error is returned as it is.
GetClientFromConfig ==
    /\ pc = "run"
    /\ \E err \in {Nil} \cup {Base(e) : e \in ClientErrors} :
        /\ clientErr' = err
        /\ IF err # Nil
           THEN /\ ret' = err
                /\ pc' = "done"
           ELSE /\ pc' = "switch"
                /\ UNCHANGED ret
    /\ UNCHANGED <<o, calls, res, promoteErr, toPrinterCalls, printerErr, out>>

\* run, case o.Stage != "": the call, the error check and the plain output.
PromoteStage ==
    /\ pc = "switch"
    /\ StageCase(o)
    /\ \E outcome \in StageOutcomes :
        /\ calls' = Append(calls, Request("PromoteStage", o, o.Stage))
        /\ res' = outcome.res
        /\ promoteErr' = outcome.err
        /\ IF outcome.err # Nil
           THEN /\ ret' = StageError(outcome.err)
                /\ pc' = "done"
                /\ UNCHANGED out
           ELSE IF PlainOutput(o)
           THEN /\ out' = out \o StageLine(o, outcome.res)
                /\ ret' = Nil
                /\ pc' = "done"
           ELSE /\ pc' = "stagePrinter"
                /\ UNCHANGED <<out, ret>>
    /\ UNCHANGED <<o, clientErr, toPrinterCalls, printerErr>>

\* run, case o.Stage != "", structured output: the printer and the object.
StageToPrinter ==
    /\ pc = "stagePrinter"
    /\ toPrinterCalls' = toPrinterCalls + 1
    /\ \E err \in {Nil} \cup {Base(e) : e \in PrinterErrors} :
        /\ printerErr' = err
        /\ IF err # Nil
           THEN /\ ret' = Wrap(err, "new printer")
                /\ UNCHANGED out
           ELSE /\ out' = Append(out, PrintObj(FromPromotionProto(res.promotions[1])))
                /\ ret' = Nil
    /\ pc' = "done"
    /\ UNCHANGED <<o, clientErr, calls, res, promoteErr>>

\* run, case o.SubscribersOf != "": the call and the plain output.
PromoteSubscribers ==
    /\ pc = "switch"
    /\ SubscribersCase(o)
    /\ \E outcome \in SubscribersOutcomes :
        /\ calls' = Append(calls, Request("PromoteSubscribers", o, o.SubscribersOf))
        /\ res' = outcome.res
        /\ promoteErr' = outcome.err
        /\ IF PlainOutput(o)
           THEN /\ out' = out \o PlainLines(outcome.res, outcome.err)
                /\ ret' = SubscribersError(outcome.err)
                /\ pc' = "done"
           ELSE /\ pc' = "subscribersPrinter"
                /\ UNCHANGED <<out, ret>>
    /\ UNCHANGED <<o, clientErr, toPrinterCalls, printerErr>>

\* run, case o.SubscribersOf != "", structured output: the printer, then the
\* loop over res.Msg.GetPromotions().  res.Msg is read without a nil check
\* of res: on a nil res the goroutine panics with a nil pointer dereference
\* and RunE returns nothing.  promoteErr is returned as it is.
SubscribersToPrinter ==
    /\ pc = "subscribersPrinter"
    /\ toPrinterCalls' = toPrinterCalls + 1
    /\ \E err \in {Nil} \cup {Base(e) : e \in PrinterErrors} :
        /\ printerErr' = err
        /\ IF err # Nil
           THEN /\ ret' = Wrap(err, "new printer")
                /\ pc' = "done"
                /\ UNCHANGED out
           ELSE IF ~res.present
           THEN /\ pc' = "panic"
                /\ UNCHANGED <<out, ret>>
           ELSE /\ out' = out \o PrintObjs(GetPromotions(res))
                /\ ret' = promoteErr
                /\ pc' = "done"
    /\ UNCHANGED <<o, clientErr, calls, res, promoteErr>>

Next ==
    \/ Validate
    \/ GetClientFromConfig
    \/ PromoteStage
    \/ StageToPrinter
    \/ PromoteSubscribers
    \/ SubscribersToPrinter

Spec == Init /\ [][Next]_vars

\* ---------------------------------------------------------------- helpers

\* The invocation is over: RunE returned, or the goroutine panicked.
Finished == pc \in {"done", "panic"}

Called(rpc) == calls # <<>> /\ calls[Len(calls)].rpc = rpc

\* The names carried by what was handed to the output, in order.
NamesOf(entries) == [i \in 1..Len(entries) |-> entries[i].name]

\* The three checks of validate in their fixed order, each with the error
\* it stands for.
Checks(opts) ==
    << [violated |-> opts.Project = "",
        msg |-> <<"%s is required", "ProjectFlag">>],
       [violated |-> opts.FreightName = "" /\ opts.FreightAlias = "",
        msg |-> <<"either %s or %s is required", "FreightFlag", "FreightAliasFlag">>],
       [violated |-> opts.Stage = "" /\ opts.SubscribersOf = "",
        msg |-> <<"either %s or %s is required", "StageFlag", "SubscribersOfFlag">>] >>

IsViolated(c) == c.violated

ViolatedMsgs(opts) ==
    LET v == SelectSeq(Checks(opts), IsViolated)
    IN  [i \in 1..Len(v) |-> v[i].msg]

\* Exactly one of two strings is non-empty.
ExactlyOne(a, b) == (a = "") # (b = "")

\* ---------------------------------------------------------------- claims

C2_AsStated ==
    (Finished /\ calls # <<>> /\ promoteErr # Nil)
        => /\ pc = "done"
           /\ ret # Nil
           /\ Wraps(ret, promoteErr.chain[1])

\* C3: subscribers branch, plain output, PromoteSubscribers returned a
\* response: one line per promotion of the response, in response order, and
\* the command returns promoteErr wrapped with "promote subscribers", nil
\* when promoteErr is nil.
C3_PlainSubscribersLines ==
    (Called("PromoteSubscribers") /\ PlainOutput(o) /\ res.present)
        => /\ pc = "done"
           /\ out = [i \in 1..Len(res.promotions) |->
                        [via |-> "Fprintf",
                         kind |-> "Promotion Created: %q\n",
                         name |-> res.promotions[i].name]]
           /\ ret = IF promoteErr = Nil THEN Nil
                    ELSE [kind |-> "wrap",
                          chain |-> <<"promote subscribers">> \o promoteErr.chain,
                          errs |-> <<>>]

\* C3 witness: a partial response of two different promotions came with an
\* error, and both lines were written.
C3_Witness ==
    /\ pc = "done"
    /\ Called("PromoteSubscribers")
    /\ PlainOutput(o)
    /\ promoteErr # Nil
    /\ Len(res.promotions) = 2
    /\ res.promotions[1] # res.promotions[2]
    /\ Len(out) = 2

\* C4, as stated: subscribers branch, PromoteSubscribers returned an error
\* and a nil response: nothing is printed and the command completes by
\* returning the error wrapped with "promote subscribers", in every output
\* mode.
C4_AsStated ==
    (Finished /\ Called("PromoteSubscribers") /\ ~res.present /\ promoteErr # Nil)
        => /\ pc = "done"
           /\ out = <<>>
           /\ ret = Wrap(promoteErr, "promote subscribers")

\* C5, as stated: subscribers branch, structured output: the error the
\* command returns after printing is the one plain output returns for the
\* same outcome, promoteErr wrapped with "promote subscribers" (nil when
\* promoteErr is nil).
C5_AsStated ==
    (/\ pc = "done"
     /\ Called("PromoteSubscribers")
     /\ ~PlainOutput(o)
     /\ printerErr = Nil)
        => ret = Wrap(promoteErr, "promote subscribers")

\* C6, as stated: at most one remote call per invocation; once validation
\* passed, exactly one PromoteStage call when Stage is set, exactly one
\* PromoteSubscribers call when SubscribersOf is set, never both.
C6_AsStated ==
    /\ Len(calls) <= 1
    /\ (Finished /\ validate(o) = Nil)
        => /\ o.Stage # "" => calls = <<Request("PromoteStage", o, o.Stage)>>
           /\ o.SubscribersOf # ""
                => calls = <<Request("PromoteSubscribers", o, o.SubscribersOf)>>

\* C6, amended: at most one remote call per invocation; once validation
\* passed and the service client was obtained, exactly one PromoteStage call
\* when Stage is set, exactly one PromoteSubscribers call when SubscribersOf
\* is set and Stage is empty, never both, and no call otherwise.
C6_OneRemoteCall ==
    /\ Len(calls) <= 1
    /\ Finished
        => IF validate(o) = Nil /\ clientErr = Nil
           THEN /\ o.Stage # "" => calls = <<Request("PromoteStage", o, o.Stage)>>
                /\ (o.SubscribersOf # "" /\ o.Stage = "")
                     => calls = <<Request("PromoteSubscribers", o, o.SubscribersOf)>>
           ELSE calls = <<>>

\* C6 witness: the one call failed and the command returned without a
\* second attempt.
C6_Witness ==
    /\ pc = "done"
    /\ Len(calls) = 1
    /\ promoteErr = Base("context canceled")
    /\ o.SubscribersOf # ""
    /\ o.Stage = ""

\* C7: stage branch, PromoteStage failed with E: nothing is written, no
\* printer is constructed, and the command returns E wrapped with
\* "promote stage", in plain and in structured output.
C7_StageFailure ==
    (Called("PromoteStage") /\ promoteErr # Nil)
        => /\ pc = "done"
           /\ out = <<>>
           /\ toPrinterCalls = 0
           /\ ret = [kind |-> "wrap",
                     chain |-> <<"promote stage">> \o promoteErr.chain,
                     errs |-> <<>>]

\* C7 witness: the call failed on a canceled context with structured output
\* requested.
C7_Witness ==
    /\ pc = "done"
    /\ Called("PromoteStage")
    /\ promoteErr = Base("context canceled")
    /\ ~PlainOutput(o)

\* C8: stage branch, plain output, PromoteStage succeeded: exactly one line
\* with the name of the promotion of the response, and the command returns
\* nil.
C8_StagePlainSuccess ==
    (Called("PromoteStage") /\ promoteErr = Nil /\ PlainOutput(o))
        => /\ pc = "done"
           /\ out = << [via |-> "Fprintf",
                        kind |-> "Promotion Created: %q\n",
                        name |-> res.promotions[1].name] >>
           /\ ret = Nil

\* C8 witness: the line was written for a successful plain promotion.
C8_Witness ==
    /\ pc = "done"
    /\ Called("PromoteStage")
    /\ promoteErr = Nil
    /\ PlainOutput(o)
    /\ Len(out) = 1

\* C9: validate's error joins exactly one message per violated check, in
\* the order project, freight, stage selector, and it is nil exactly when
\* no check is violated; RunE returns that error.
C9_ValidateAggregates ==
    /\ validate(o) = (IF ViolatedMsgs(o) = <<>> THEN Nil
                      ELSE [kind |-> "join", chain |-> <<>>, errs |-> ViolatedMsgs(o)])
    /\ (validate(o) = Nil) <=> (\A i \in 1..3 : ~Checks(o)[i].violated)
    /\ (pc # "RunE" /\ ViolatedMsgs(o) # <<>>)
        => (ret.kind = "join" /\ ret.errs = ViolatedMsgs(o))

\* C9 witness: all three checks were violated and the returned error holds
\* the three messages, the last one naming both selectors.
C9_Witness ==
    /\ pc = "done"
    /\ o.Project = ""
    /\ o.FreightName = "" /\ o.FreightAlias = ""
    /\ o.Stage = "" /\ o.SubscribersOf = ""
    /\ Len(ret.errs) = 3
    /\ ret.errs[3] = <<"either %s or %s is required", "StageFlag", "SubscribersOfFlag">>

\* The names plain output prints for the outcome of the remote call.
PlainNames ==
    IF Called("PromoteStage")
    THEN (IF promoteErr = Nil THEN <<res.promotions[1].name>> ELSE <<>>)
    ELSE (IF res.present /\ res.msg
          THEN [i \in 1..Len(res.promotions) |-> res.promotions[i].name]
          ELSE <<>>)

====
